---- MODULE Spec2Model ----
(***************************************************************************)
(* SimpleGrad: the operator catalog of src/src/ops.rs (forward value and   *)
(* local-gradient recipe of each node type) and the backward engine that   *)
(* drives it (crate::graph::Graph, used by the tests of ops.rs).           *)
(*                                                                         *)
(* DType is f32.  A number is modelled in fixed point: the integer n       *)
(* stands for n / Scale, products and quotients are rounded to the nearest *)
(* unit.  Only the finite fragment is modelled: the constructors' guards   *)
(* keep every operand inside the domain where the forward value and the    *)
(* local gradients are finite (no division by zero, no ln of a             *)
(* non-positive number), so NaN and the infinities never appear.           *)
(***************************************************************************)
EXTENDS Integers, Sequences, FiniteSets, TLC

VARIABLES
    nodes,      \* the nodes built so far; a node's NodeIdx is its index
    gradients,  \* Graph.gradients of the current context: NodeIdx -> buffer
    pc,         \* "none" (no Graph), "fresh", "running" (inside backward), "done"
    root,       \* end_node of the current or of the last backward call (0: none yet)
    order,      \* processing order of the running pass
    idx,        \* position in order of the next node to process
    call,       \* the last compute_grad invocation (NoCall: none)
    contribs,   \* history: every contribution handed to the accumulator map
    processed,  \* history: the NodeIdx whose compute_grad ran in this pass, in order
    repeat,     \* history: this pass has the end_node of the pass before it
    budget      \* the most nodes the caller's expression has

vars == <<nodes, gradients, pc, root, order, idx, call, contribs, processed, repeat, budget>>

engineVars == <<gradients, pc, root, order, idx, call, contribs, processed, repeat, budget>>

(***************************************************************************)
(* Bounds of the model and the numeric representation                      *)
(***************************************************************************)
\* the most nodes a behaviour builds, with every operator of the catalog
MaxNodes == 3

\* the most nodes a behaviour builds when the graphs are built from the
\* leaves, AddN, Multiply and Negate alone (the shapes of deeper graphs)
ShapeNodes == 4

\* the most nodes of a graph in the behaviours checked for liveness
LiveNodes == 2

\* the most nodes a behaviour builds before it calls compute_grad by itself
GradNodes == 2

\* the most children handed to BulkSum::new
MaxBulk == 2

\* the tabulated functions are modelled on the whole numbers -TabMax..TabMax
TabMax == 3

\* constructors are taken only while every element of the value stays
\* within -ValCap..ValCap (whole units), which keeps the arithmetic finite
ValCap == 10

\* fixed-point units per 1.0 of DType
Scale == 100

\* caller-supplied values of the tracked variables and of the constants
VariableValues == {<<200, 300>>}

ConstantValues == {<<300, 100>>, <<200>>}

Abs(a) == IF a < 0 THEN -a ELSE a

Range(s) == {s[i] : i \in 1..Len(s)}

Min(a, b) == IF a < b THEN a ELSE b

(***************************************************************************)
(* f32 arithmetic in fixed point                                           *)
(***************************************************************************)
RDiv(a, b) ==
    LET sgn == IF (a < 0) = (b < 0) THEN 1 ELSE -1
    IN  sgn * ((2 * Abs(a) + Abs(b)) \div (2 * Abs(b)))

FMul(a, b) == RDiv(a * b, Scale)

FDiv(a, b) == RDiv(a * Scale, b)

IsWhole(a) == a % Scale = 0

InTable(a) == IsWhole(a) /\ Abs(a) <= TabMax * Scale

\* f32::exp on whole numbers
FExp(a) ==
    CASE a = -400 -> 2
      [] a = -300 -> 5
      [] a = -200 -> 14
      [] a = -100 -> 37
      [] a = 0    -> 100
      [] a = 100  -> 272
      [] a = 200  -> 739
      [] a = 300  -> 2009
      [] a = 400  -> 5460

\* f32::ln on positive whole numbers
FLn(a) ==
    CASE a = 100 -> 0
      [] a = 200 -> 69
      [] a = 300 -> 110
      [] a = 400 -> 139

LnOk(a) == InTable(a) /\ a > 0

\* f32::cos on whole numbers
FCos(a) ==
    CASE Abs(a) = 0   -> 100
      [] Abs(a) = 100 -> 54
      [] Abs(a) = 200 -> -42
      [] Abs(a) = 300 -> -99
      [] Abs(a) = 400 -> -65

\* f32::sin on whole numbers
FSin(a) ==
    LET s == CASE Abs(a) = 0   -> 0
               [] Abs(a) = 100 -> 84
               [] Abs(a) = 200 -> 91
               [] Abs(a) = 300 -> 14
               [] Abs(a) = 400 -> -76
    IN  IF a < 0 THEN -s ELSE s

RECURSIVE IPow(_, _)
IPow(x, k) == IF k <= 0 THEN Scale ELSE FMul(IPow(x, k - 1), x)

\* f32::powf for a whole exponent >= 0
FPowf(x, y) == IPow(x, y \div Scale)

\* the exponents for which x^y, x^(y-1) and ln(y) are all tabulated and finite
PowOk(y) == LnOk(y)

\* the divisors for which 1/y and x/y^2 stay within the modelled range
DivOk(y) == Abs(y) >= Scale

InCap(v) == \A i \in 1..Len(v) : Abs(v[i]) <= ValCap * Scale

(***************************************************************************)
(* crate::vecops, the numeric vector kernel (equal-length operands)        *)
(***************************************************************************)
add(l, r, out) == [i \in 1..Len(out) |-> l[i] + r[i]]

sub(l, r, out) == [i \in 1..Len(out) |-> l[i] - r[i]]

mul(l, r, out) == [i \in 1..Len(out) |-> FMul(l[i], r[i])]

div(l, r, out) == [i \in 1..Len(out) |-> FDiv(l[i], r[i])]

iadd(l, r) == [i \in 1..Len(l) |-> l[i] + r[i]]

imul(l, r) == [i \in 1..Len(l) |-> FMul(l[i], r[i])]

\* vec![x; n]
Filled(x, n) == [i \in 1..n |-> x]

\* slice::fill
fill(buf, x) == [i \in 1..Len(buf) |-> x]

\* slice::clone_from_slice (panics unless the lengths agree)
clone_from_slice(buf, src) == src

(***************************************************************************)
(* Nodes                                                                   *)
(***************************************************************************)
Leaves == {"Variable", "Constant"}

Binary == {"AddN", "Subtract", "Multiply", "Divide", "Power"}

NodeIds == 1..Len(nodes)

\* the NodeIdx of a node is its position in nodes: fresh, never reused
get_id(n) == n

value(n) == nodes[n].value

\* Variable and Constant return None, the composites Some(self.1.as_slice())
get_children(n) == nodes[n].children

VariableIsLeaf == TRUE

ConstantIsLeaf == TRUE

AddNIsLeaf == FALSE

SubtractIsLeaf == FALSE

\* the slip of copying a leaf's impl: fn is_leaf(&self) -> bool { true }
MultiplyIsLeafTrue == TRUE

MultiplyIsLeaf == FALSE

DivideIsLeaf == FALSE

PowerIsLeaf == FALSE

SumVecIsLeaf == FALSE

CosIsLeaf == FALSE

SinIsLeaf == FALSE

LnIsLeaf == FALSE

ExpIsLeaf == FALSE

NegateIsLeaf == FALSE

BulkSumIsLeaf == FALSE

VariableRequiresGrad == TRUE

\* the slip of copying Variable's impl: fn requires_grad(&self) -> bool { true }
ConstantRequiresGradTrue == TRUE

ConstantRequiresGrad == FALSE

AddNRequiresGrad == FALSE

SubtractRequiresGrad == FALSE

MultiplyRequiresGrad == FALSE

DivideRequiresGrad == FALSE

PowerRequiresGrad == FALSE

SumVecRequiresGrad == FALSE

CosRequiresGrad == FALSE

SinRequiresGrad == FALSE

LnRequiresGrad == FALSE

ExpRequiresGrad == FALSE

NegateRequiresGrad == FALSE

BulkSumRequiresGrad == FALSE

is_leaf(n) ==
    CASE nodes[n].kind = "Variable" -> VariableIsLeaf
      [] nodes[n].kind = "Constant" -> ConstantIsLeaf
      [] nodes[n].kind = "AddN" -> AddNIsLeaf
      [] nodes[n].kind = "Subtract" -> SubtractIsLeaf
      [] nodes[n].kind = "Multiply" -> MultiplyIsLeaf
      [] nodes[n].kind = "Divide" -> DivideIsLeaf
      [] nodes[n].kind = "Power" -> PowerIsLeaf
      [] nodes[n].kind = "SumVec" -> SumVecIsLeaf
      [] nodes[n].kind = "Cos" -> CosIsLeaf
      [] nodes[n].kind = "Sin" -> SinIsLeaf
      [] nodes[n].kind = "Ln" -> LnIsLeaf
      [] nodes[n].kind = "Exp" -> ExpIsLeaf
      [] nodes[n].kind = "Negate" -> NegateIsLeaf
      [] nodes[n].kind = "BulkSum" -> BulkSumIsLeaf

requires_grad(n) ==
    CASE nodes[n].kind = "Variable" -> VariableRequiresGrad
      [] nodes[n].kind = "Constant" -> ConstantRequiresGrad
      [] nodes[n].kind = "AddN" -> AddNRequiresGrad
      [] nodes[n].kind = "Subtract" -> SubtractRequiresGrad
      [] nodes[n].kind = "Multiply" -> MultiplyRequiresGrad
      [] nodes[n].kind = "Divide" -> DivideRequiresGrad
      [] nodes[n].kind = "Power" -> PowerRequiresGrad
      [] nodes[n].kind = "SumVec" -> SumVecRequiresGrad
      [] nodes[n].kind = "Cos" -> CosRequiresGrad
      [] nodes[n].kind = "Sin" -> SinRequiresGrad
      [] nodes[n].kind = "Ln" -> LnRequiresGrad
      [] nodes[n].kind = "Exp" -> ExpRequiresGrad
      [] nodes[n].kind = "Negate" -> NegateRequiresGrad
      [] nodes[n].kind = "BulkSum" -> BulkSumRequiresGrad

\* the caller builds the whole expression, then differentiates it
CanBuild == pc = "none" /\ Len(nodes) < budget

Node(k, cs, v) == [kind |-> k, children |-> cs, value |-> v]

\* ANode::new(Arc::new(node)) after NodeIdx::new(): the node joins the graph
Push(k, cs, v) ==
    /\ InCap(v)
    /\ nodes' = Append(nodes, Node(k, cs, v))

(***************************************************************************)
(* Forward values: <Op>::compute                                           *)
(***************************************************************************)
AddNCompute(lv, rv) == add(lv, rv, Filled(0, Len(lv)))

SubtractCompute(lv, rv) == sub(lv, rv, Filled(0, Len(lv)))

\* the slip of copying AddN::compute without changing the kernel call
MultiplyComputeAdds(lv, rv) == add(lv, rv, Filled(0, Len(lv)))

MultiplyCompute(lv, rv) == mul(lv, rv, Filled(0, Len(lv)))

DivideCompute(lv, rv) == div(lv, rv, Filled(0, Len(lv)))

\* lv.iter().zip(rv.iter()).map(..).collect(): as long as the shorter operand
PowerCompute(lv, rv) == [i \in 1..Min(Len(lv), Len(rv)) |-> FPowf(lv[i], rv[i])]

RECURSIVE SumSeq(_)
SumSeq(s) == IF s = <<>> THEN 0 ELSE Head(s) + SumSeq(Tail(s))

SumVecCompute(lv) == <<SumSeq(lv)>>

CosCompute(lv) == [i \in 1..Len(lv) |-> FCos(lv[i])]

SinCompute(lv) == [i \in 1..Len(lv) |-> FSin(lv[i])]

LnCompute(lv) == [i \in 1..Len(lv) |-> FLn(lv[i])]

ExpCompute(lv) == [i \in 1..Len(lv) |-> FExp(lv[i])]

NegateCompute(lv) == [i \in 1..Len(lv) |-> -lv[i]]

RECURSIVE BulkSumAgg(_, _)
BulkSumAgg(agg, xs) ==
    IF xs = <<>> THEN agg ELSE BulkSumAgg(iadd(agg, value(Head(xs))), Tail(xs))

BulkSumCompute(xs) == BulkSumAgg(Filled(0, Len(value(xs[1]))), xs)

AllIn(v, P(_)) == \A i \in 1..Len(v) : P(v[i])

(***************************************************************************)
(* Constructors: one action per <Op>::new                                  *)
(***************************************************************************)
VariableNew ==
    /\ CanBuild
    /\ \E v \in VariableValues :
        /\ Push("Variable", <<>>, v)
        /\ UNCHANGED engineVars

ConstantNew ==
    /\ CanBuild
    /\ \E v \in ConstantValues :
        /\ Push("Constant", <<>>, v)
        /\ UNCHANGED engineVars

\* the kernel is specified for equal-length operands only
SameLen(l, r) == Len(value(l)) = Len(value(r))

AddNNew ==
    /\ CanBuild
    /\ \E left \in NodeIds, right \in NodeIds :
        /\ SameLen(left, right)
        /\ Push("AddN", <<left, right>>, AddNCompute(value(left), value(right)))
        /\ UNCHANGED engineVars

SubtractNew ==
    /\ CanBuild
    /\ \E left \in NodeIds, right \in NodeIds :
        /\ SameLen(left, right)
        /\ Push("Subtract", <<left, right>>, SubtractCompute(value(left), value(right)))
        /\ UNCHANGED engineVars

MultiplyNew ==
    /\ CanBuild
    /\ \E left \in NodeIds, right \in NodeIds :
        /\ SameLen(left, right)
        /\ Push("Multiply", <<left, right>>, MultiplyCompute(value(left), value(right)))
        /\ UNCHANGED engineVars

DivideNew ==
    /\ CanBuild
    /\ \E left \in NodeIds, right \in NodeIds :
        /\ SameLen(left, right)
        /\ AllIn(value(right), DivOk)
        /\ Push("Divide", <<left, right>>, DivideCompute(value(left), value(right)))
        /\ UNCHANGED engineVars

\* Power::compute zips its operands, so it is defined for any two lengths
PowerNew ==
    /\ CanBuild
    /\ \E base \in NodeIds, exp \in NodeIds :
        /\ AllIn(value(exp), PowOk)
        /\ Push("Power", <<base, exp>>, PowerCompute(value(base), value(exp)))
        /\ UNCHANGED engineVars

SumVecNew ==
    /\ CanBuild
    /\ \E vec \in NodeIds :
        /\ Push("SumVec", <<vec>>, SumVecCompute(value(vec)))
        /\ UNCHANGED engineVars

CosNew ==
    /\ CanBuild
    /\ \E vec \in NodeIds :
        /\ AllIn(value(vec), InTable)
        /\ Push("Cos", <<vec>>, CosCompute(value(vec)))
        /\ UNCHANGED engineVars

SinNew ==
    /\ CanBuild
    /\ \E vec \in NodeIds :
        /\ AllIn(value(vec), InTable)
        /\ Push("Sin", <<vec>>, SinCompute(value(vec)))
        /\ UNCHANGED engineVars

LnNew ==
    /\ CanBuild
    /\ \E vec \in NodeIds :
        /\ AllIn(value(vec), LnOk)
        /\ Push("Ln", <<vec>>, LnCompute(value(vec)))
        /\ UNCHANGED engineVars

ExpNew ==
    /\ CanBuild
    /\ \E vec \in NodeIds :
        /\ AllIn(value(vec), InTable)
        /\ Push("Exp", <<vec>>, ExpCompute(value(vec)))
        /\ UNCHANGED engineVars

NegateNew ==
    /\ CanBuild
    /\ \E vec \in NodeIds :
        /\ Push("Negate", <<vec>>, NegateCompute(value(vec)))
        /\ UNCHANGED engineVars

BulkSeqs == UNION {[1..k -> NodeIds] : k \in 1..MaxBulk}

BulkSumNew ==
    /\ CanBuild
    /\ \E vecs \in BulkSeqs :
        /\ \A i \in 1..Len(vecs) : SameLen(vecs[1], vecs[i])
        /\ Push("BulkSum", vecs, BulkSumCompute(vecs))
        /\ UNCHANGED engineVars

(***************************************************************************)
(* Local gradients: Node::compute_grad(&self, grad, results)               *)
(* results holds one pre-sized buffer per child; the operator returns the  *)
(* buffers as the call leaves them.                                        *)
(***************************************************************************)
\* out.iter_mut().zip(..).for_each(|(oi, ..)| *oi = F): the first m slots are set
ZipWrite(out, m, F(_)) == [i \in 1..Len(out) |-> IF i <= m THEN F(i) ELSE out[i]]

VariableComputeGrad(n, grad, results) == results

AddNComputeGrad(n, grad, results) ==
    [results EXCEPT ![1] = clone_from_slice(@, grad),
                    ![2] = clone_from_slice(@, grad)]

SubtractComputeGrad(n, grad, results) ==
    [results EXCEPT ![1] = imul(fill(@, Scale), grad),
                    ![2] = imul(fill(@, -Scale), grad)]

\* the slip of writing results[0] twice: the second buffer is never written
MultiplyComputeGradFirstOnly(n, grad, results) ==
    LET x == value(get_children(n)[1])
        y == value(get_children(n)[2])
    IN  [results EXCEPT ![1] = imul(clone_from_slice(@, x), grad)]

\* the slip of pairing each buffer with its own child's value
MultiplyComputeGradSwapped(n, grad, results) ==
    LET x == value(get_children(n)[1])
        y == value(get_children(n)[2])
    IN  [results EXCEPT ![1] = imul(clone_from_slice(@, x), grad),
                        ![2] = imul(clone_from_slice(@, y), grad)]

MultiplyComputeGrad(n, grad, results) ==
    LET x == value(get_children(n)[1])
        y == value(get_children(n)[2])
    IN  [results EXCEPT ![1] = imul(clone_from_slice(@, y), grad),
                        ![2] = imul(clone_from_slice(@, x), grad)]

DivideComputeGrad(n, grad, results) ==
    LET x == value(get_children(n)[1])
        y == value(get_children(n)[2])
    IN  [results EXCEPT
            ![1] = imul(ZipWrite(@, Len(y), LAMBDA i : FDiv(Scale, y[i])), grad),
            ![2] = imul(ZipWrite(@, Min(Len(x), Len(y)),
                                 LAMBDA i : FDiv(-x[i], FPowf(y[i], 2 * Scale))), grad)]

PowerComputeGrad(n, grad, results) ==
    LET x == value(get_children(n)[1])
        y == value(get_children(n)[2])
        m == Min(Len(x), Len(y))
    IN  [results EXCEPT
            ![1] = imul(ZipWrite(@, m, LAMBDA i : FMul(y[i], FPowf(x[i], y[i] - Scale))), grad),
            ![2] = imul(ZipWrite(@, m, LAMBDA i : FMul(FLn(y[i]), FPowf(x[i], y[i]))), grad)]

SumVecComputeGrad(n, grad, results) ==
    [results EXCEPT ![1] = fill(@, grad[1])]

CosComputeGrad(n, grad, results) ==
    LET x == value(get_children(n)[1])
    IN  [results EXCEPT
            ![1] = ZipWrite(@, Min(Len(grad), Len(x)), LAMBDA i : FMul(grad[i], -FSin(x[i])))]

SinComputeGrad(n, grad, results) ==
    LET x == value(get_children(n)[1])
    IN  [results EXCEPT
            ![1] = ZipWrite(@, Min(Len(grad), Len(x)), LAMBDA i : FMul(grad[i], FCos(x[i])))]

LnComputeGrad(n, grad, results) ==
    LET x == value(get_children(n)[1])
    IN  [results EXCEPT
            ![1] = ZipWrite(@, Min(Len(grad), Len(x)), LAMBDA i : FDiv(grad[i], x[i]))]

\* the slip of reading the child's value, as the other unary operators do
ExpComputeGradOfChild(n, grad, results) ==
    LET x == value(get_children(n)[1])
    IN  [results EXCEPT ![1] = imul(clone_from_slice(@, x), grad)]

ExpComputeGrad(n, grad, results) ==
    LET x == value(n)
    IN  [results EXCEPT ![1] = imul(clone_from_slice(@, x), grad)]

NegateComputeGrad(n, grad, results) ==
    [results EXCEPT ![1] = ZipWrite(@, Len(grad), LAMBDA i : -grad[i])]

\* the slip of accumulating with iadd, as BulkSum::compute does
BulkSumComputeGradAdds(n, grad, results) ==
    [i \in 1..Len(results) |-> iadd(results[i], grad)]

BulkSumComputeGrad(n, grad, results) ==
    [i \in 1..Len(results) |-> clone_from_slice(results[i], grad)]

\* dynamic dispatch through the Node trait object
compute_grad(n, grad, results) ==
    CASE nodes[n].kind = "AddN"     -> AddNComputeGrad(n, grad, results)
      [] nodes[n].kind = "Subtract" -> SubtractComputeGrad(n, grad, results)
      [] nodes[n].kind = "Multiply" -> MultiplyComputeGrad(n, grad, results)
      [] nodes[n].kind = "Divide"   -> DivideComputeGrad(n, grad, results)
      [] nodes[n].kind = "Power"    -> PowerComputeGrad(n, grad, results)
      [] nodes[n].kind = "SumVec"   -> SumVecComputeGrad(n, grad, results)
      [] nodes[n].kind = "Cos"      -> CosComputeGrad(n, grad, results)
      [] nodes[n].kind = "Sin"      -> SinComputeGrad(n, grad, results)
      [] nodes[n].kind = "Ln"       -> LnComputeGrad(n, grad, results)
      [] nodes[n].kind = "Exp"      -> ExpComputeGrad(n, grad, results)
      [] nodes[n].kind = "Negate"   -> NegateComputeGrad(n, grad, results)
      [] nodes[n].kind = "BulkSum"  -> BulkSumComputeGrad(n, grad, results)
      [] OTHER                      -> VariableComputeGrad(n, grad, results)

(***************************************************************************)
(* The backward engine: crate::graph::Graph                                *)
(***************************************************************************)
RECURSIVE Visit(_, _), VisitAll(_, _)
\* post-order from n, memoised by identifier
Visit(n, seen) ==
    IF n \in Range(seen) THEN seen
    ELSE Append(VisitAll(get_children(n), seen), n)

VisitAll(cs, seen) ==
    IF cs = <<>> THEN seen ELSE VisitAll(Tail(cs), Visit(Head(cs), seen))

PostOrder(r) == Visit(r, <<>>)

Reverse(s) == [i \in 1..Len(s) |-> s[Len(s) + 1 - i]]

\* a traversal that lists a node when it is first met, before its children
RECURSIVE PreVisit(_, _), PreVisitAll(_, _)
PreVisit(n, seen) ==
    IF n \in Range(seen) THEN seen
    ELSE PreVisitAll(get_children(n), Append(seen, n))

PreVisitAll(cs, seen) ==
    IF cs = <<>> THEN seen ELSE PreVisitAll(Tail(cs), PreVisit(Head(cs), seen))

ProcessingOrderPreOrder(r) == PreVisit(r, <<>>)

ProcessingOrder(r) == Reverse(PostOrder(r))

Reachable(r) == Range(PostOrder(r))

Empty == <<>>

HasGrad(g, n) == n \in DOMAIN g

\* a Constant's accumulator is not kept for retrieval
Retained(n) == ~(is_leaf(n) /\ ~requires_grad(n))

Put(g, n, buf) == [m \in DOMAIN g \cup {n} |-> IF m = n THEN buf ELSE g[m]]

\* gradients.entry(id).or_insert(zeros) += contribution
Accumulate(g, n, buf) ==
    IF ~Retained(n) THEN g
    ELSE Put(g, n, iadd(IF HasGrad(g, n) THEN g[n] ELSE Filled(0, Len(value(n))), buf))

RECURSIVE AccumulateAll(_, _, _, _)
AccumulateAll(g, cs, res, i) ==
    IF i > Len(cs) THEN g
    ELSE AccumulateAll(Accumulate(g, cs[i], res[i]), cs, res, i + 1)

Scratch(n) == [i \in 1..Len(get_children(n)) |-> Filled(0, Len(value(get_children(n)[i])))]

Seed(g, r) == IF Retained(r) THEN Put(g, r, Filled(Scale, Len(value(r)))) ELSE g

\* every slice the kernel is handed in a pass from r has the length of its partner
KernelDefined(r) ==
    \A n \in Reachable(r) :
        nodes[n].kind \in Binary => /\ SameLen(get_children(n)[1], get_children(n)[2])
                                    /\ SameLen(n, get_children(n)[1])

\* Option<&Vec<DType>>: None, and Some(buffer)
Absent == <<>>

Some(buf) == <<buf>>

\* Graph::get_grad
get_grad(n) == IF HasGrad(gradients, n) THEN Some(gradients[n]) ELSE Absent

NoCall == [node |-> 0]

\* the nodes the caller differentiates: the outputs of the expression built,
\* that is the nodes no other node consumes
Outputs == {n \in NodeIds : \A m \in NodeIds : n \notin Range(get_children(m))}

\* a context that is reused instead of built fresh: the accumulators stay
GraphNewKeepsGradients ==
    /\ pc \in {"none", "done"}
    /\ pc' = "fresh"
    /\ order' = <<>>
    /\ idx' = 0
    /\ call' = NoCall
    /\ contribs' = <<>>
    /\ processed' = <<>>
    /\ repeat' = FALSE
    /\ UNCHANGED <<nodes, root, gradients, budget>>

\* Graph::new()
GraphNew ==
    /\ pc \in {"none", "done"}
    /\ pc' = "fresh"
    /\ gradients' = Empty
    /\ order' = <<>>
    /\ idx' = 0
    /\ call' = NoCall
    /\ contribs' = <<>>
    /\ processed' = <<>>
    /\ repeat' = FALSE
    /\ UNCHANGED <<nodes, root, budget>>

\* Graph::backward(end_node): traversal, seeding, entry of the loop
Backward ==
    /\ pc = "fresh"
    /\ \E end_node \in Outputs :
        /\ KernelDefined(end_node)
        /\ root' = end_node
        /\ repeat' = (end_node = root)
        /\ order' = ProcessingOrder(end_node)
        /\ gradients' = Seed(gradients, end_node)
    /\ idx' = 1
    /\ pc' = "running"
    /\ UNCHANGED <<nodes, call, contribs, processed, budget>>

\* what one iteration of the loop does to the accumulators
Active(g, n) == HasGrad(g, n) /\ ~is_leaf(n)

StepGrad(g, n) ==
    IF Active(g, n)
    THEN AccumulateAll(g, get_children(n), compute_grad(n, g[n], Scratch(n)), 1)
    ELSE g

Contribs(n, res) ==
    [i \in 1..Len(res) |-> [to |-> get_children(n)[i], from |-> n, slot |-> i, buf |-> res[i]]]

\* a loop that skips a leaf before it advances: it waits at the leaf
BackwardStepStalls ==
    /\ pc = "running"
    /\ LET n == order[idx]
           act == Active(gradients, n)
           res == compute_grad(n, gradients[n], Scratch(n))
           adv == act
       IN  /\ gradients' = StepGrad(gradients, n)
           /\ call' = IF act THEN [node |-> n, grad |-> gradients[n],
                                   scratch |-> Scratch(n), results |-> res]
                      ELSE call
           /\ contribs' = IF act THEN contribs \o Contribs(n, res) ELSE contribs
           /\ processed' = IF act THEN Append(processed, n) ELSE processed
           /\ idx' = IF adv THEN idx + 1 ELSE idx
           /\ pc' = IF adv /\ idx = Len(order) THEN "done" ELSE "running"
    /\ UNCHANGED <<nodes, root, order, repeat, budget>>

\* Graph::backward: one iteration of the loop over the processing order
BackwardStep ==
    /\ pc = "running"
    /\ LET n == order[idx]
           act == Active(gradients, n)
           res == compute_grad(n, gradients[n], Scratch(n))
       IN  /\ gradients' = StepGrad(gradients, n)
           /\ call' = IF act THEN [node |-> n, grad |-> gradients[n],
                                   scratch |-> Scratch(n), results |-> res]
                      ELSE call
           /\ contribs' = IF act THEN contribs \o Contribs(n, res) ELSE contribs
           /\ processed' = IF act THEN Append(processed, n) ELSE processed
           /\ idx' = idx + 1
           /\ pc' = IF idx = Len(order) THEN "done" ELSE "running"
    /\ UNCHANGED <<nodes, root, order, repeat, budget>>

Start(n) ==
    /\ nodes = <<>>
    /\ gradients = Empty
    /\ pc = "none"
    /\ root = 0
    /\ order = <<>>
    /\ idx = 0
    /\ call = NoCall
    /\ contribs = <<>>
    /\ processed = <<>>
    /\ repeat = FALSE
    /\ budget = n

Init == Start(MaxNodes)

Construct ==
    \/ VariableNew \/ ConstantNew
    \/ AddNNew \/ SubtractNew \/ MultiplyNew \/ DivideNew \/ PowerNew
    \/ SumVecNew \/ CosNew \/ SinNew \/ LnNew \/ ExpNew \/ NegateNew
    \/ BulkSumNew

Next == Construct \/ GraphNew \/ Backward \/ BackwardStep

Spec == Init /\ [][Next]_vars

\* graphs of more nodes, built from the leaves and three of the operators,
\* and differentiated once
InitShape == Start(ShapeNodes)

\* the one context of such a behaviour
GraphNewOnce == pc = "none" /\ GraphNew

ConstructShape == VariableNew \/ ConstantNew \/ AddNNew \/ MultiplyNew \/ NegateNew

NextShape == ConstructShape \/ GraphNewOnce \/ Backward \/ BackwardStep

ShapeSpec == InitShape /\ [][NextShape]_vars

\* the behaviours checked for liveness
InitLive == Start(LiveNodes)

\* backward runs to completion once called: the loop is never abandoned
FairSpec == InitLive /\ [][Next]_vars /\ WF_vars(BackwardStep)

(***************************************************************************)
(* Node::compute_grad called by itself, on buffers that hold earlier       *)
(* contents                                                                *)
(***************************************************************************)
\* first element of the upstream gradients handed in
UpstreamValues == {Scale, -2 * Scale}

\* what every slot of the buffers holds before the call
PriorValues == {0, 3 * Scale}

Upstream(g, len) == [i \in 1..len |-> g + (i - 1) * Scale]

\* one buffer per child, as long as the child's value
Prior(n, d) == [i \in 1..Len(get_children(n)) |-> Filled(d, Len(value(get_children(n)[i])))]

\* the slices the call zips or hands to the kernel have one length
GradDefined(n) ==
    nodes[n].kind = "SumVec" \/
        \A i \in 1..Len(get_children(n)) : SameLen(get_children(n)[i], n)

\* node.compute_grad(&grad, &mut results)
ComputeGradCall ==
    /\ pc = "none"
    /\ \E n \in NodeIds, g \in UpstreamValues, d \in PriorValues :
        /\ ~is_leaf(n)
        /\ GradDefined(n)
        /\ LET grad == Upstream(g, Len(value(n)))
               results == Prior(n, d)
           IN  call' = [node |-> n, grad |-> grad, scratch |-> results,
                        results |-> compute_grad(n, grad, results)]
    /\ UNCHANGED <<nodes, gradients, pc, root, order, idx, contribs, processed, repeat, budget>>

NextGrad == Construct \/ ComputeGradCall

InitGrad == Start(GradNodes)

GradSpec == InitGrad /\ [][NextGrad]_vars

(***************************************************************************)
(* Properties                                                              *)
(***************************************************************************)
Kind(n) == nodes[n].kind

Child(n, i) == get_children(n)[i]

Done == pc = "done"

\* the elementwise sum of the contributions recorded for n, from position j on
RECURSIVE ContribSum(_, _)
ContribSum(n, j) ==
    IF j > Len(contribs) THEN Filled(0, Len(value(n)))
    ELSE LET rest == ContribSum(n, j + 1)
         IN  IF contribs[j].to = n
             THEN [i \in 1..Len(rest) |-> contribs[j].buf[i] + rest[i]]
             ELSE rest

ContribsTo(n) == {j \in 1..Len(contribs) : contribs[j].to = n}

\* C1: after a backward pass the accumulated gradient of every node other than
\* the root is the elementwise sum of all the contributions its consumers wrote
\* for it, one per (consumer, child slot), and a node that some consumer wrote
\* to has a gradient unless it is a Constant; so for f = Multiply(x, x) the
\* gradient of x is the sum y*g + x*g = 2x of the two slots' contributions.
C1_SumOfContributions ==
    Done =>
        /\ \A n \in NodeIds \ {root} :
              /\ HasGrad(gradients, n) => gradients[n] = ContribSum(n, 1)
              /\ (ContribsTo(n) # {} /\ Kind(n) # "Constant") => HasGrad(gradients, n)
        /\ (Kind(root) = "Multiply" /\ Child(root, 1) = Child(root, 2)
               /\ Kind(Child(root, 1)) # "Constant") =>
              LET c == Child(root, 1)
              IN  gradients[c] = [i \in 1..Len(value(c)) |-> 2 * value(c)[i]]

\* a node with contributions from two different consumers, which differ
C1_Witness ==
    /\ Done
    /\ \E n \in NodeIds : \E j, k \in ContribsTo(n) :
          /\ contribs[j].from # contribs[k].from
          /\ contribs[j].buf # contribs[k].buf
          /\ HasGrad(gradients, n)
          /\ gradients[n] # contribs[j].buf
          /\ gradients[n] # contribs[k].buf

\* C2: after backward(root) completes, every tracked Variable reachable from
\* the root has a recorded gradient, also when a leaf precedes a composite
\* node in the processing order.
C2_TrackedReachableHaveGrad ==
    Done => \A n \in Reachable(root) : Kind(n) = "Variable" => get_grad(n) # Absent

\* a Constant leaf is processed before a composite whose child is a Variable
C2_Witness ==
    /\ Done
    /\ \E i, j \in 1..Len(order) :
          /\ i < j
          /\ Kind(order[i]) = "Constant"
          /\ Kind(order[j]) \notin Leaves
          /\ \E x \in Range(get_children(order[j])) :
                Kind(x) = "Variable" /\ get_grad(x) # Absent

\* C3: get_grad of a Constant is absent in every state, also when a processed
\* operator wrote a contribution for it; after a pass, get_grad of a node not
\* reachable from the root is absent; on a context on which no pass has run,
\* get_grad of every node is absent.
C3_AbsentGradients ==
    /\ \A n \in NodeIds : Kind(n) = "Constant" => get_grad(n) = Absent
    /\ Done => \A n \in NodeIds \ Reachable(root) : get_grad(n) = Absent
    /\ pc \in {"none", "fresh"} => \A n \in NodeIds : get_grad(n) = Absent

\* a Constant received a non-zero contribution, and some node is out of reach
C3_Witness ==
    /\ Done
    /\ \E j \in 1..Len(contribs) :
          /\ Kind(contribs[j].to) = "Constant"
          /\ \E i \in 1..Len(contribs[j].buf) : contribs[j].buf[i] # 0
    /\ NodeIds \ Reachable(root) # {}

\* C4: Power.compute_grad writes g*y*x^(y-1) for the base and g*ln(x)*x^y for
\* the exponent, the logarithm being that of the base x.
C4_PowerGradLnOfBase ==
    (call.node # 0 /\ Kind(call.node) = "Power") =>
        LET x == value(Child(call.node, 1))
            y == value(Child(call.node, 2))
            g == call.grad
        IN  \A i \in 1..Len(g) :
              /\ call.results[1][i] = FMul(FMul(y[i], FPowf(x[i], y[i] - Scale)), g[i])
              /\ LnOk(x[i]) =>
                    call.results[2][i] = FMul(FMul(FLn(x[i]), FPowf(x[i], y[i])), g[i])

\* C5: no binary elementwise node exists whose two operands differ in length:
\* constructing one fails instead of returning a node.
C5_LengthMismatchFails ==
    \A n \in NodeIds :
        Kind(n) \in Binary => Len(value(Child(n, 1))) = Len(value(Child(n, 2)))

\* C6: from the start of the loop on, the root's accumulator is a buffer of
\* ones as long as the root's value; after the pass on exp(-x), and on -x, the
\* gradient of x is the derivative -exp(-x_i), respectively -1, at every
\* position i of x.
C6_SeedOnesPerElement ==
    /\ (pc \in {"running", "done"} /\ Kind(root) # "Constant") =>
          get_grad(root) = Some([i \in 1..Len(value(root)) |-> Scale])
    /\ (Done /\ Kind(root) = "Exp" /\ Kind(Child(root, 1)) = "Negate"
            /\ Kind(Child(Child(root, 1), 1)) = "Variable") =>
          LET x == Child(Child(root, 1), 1)
          IN  get_grad(x) = Some([i \in 1..Len(value(x)) |-> -FExp(-value(x)[i])])
    /\ (Done /\ Kind(root) = "Negate" /\ Kind(Child(root, 1)) = "Variable") =>
          get_grad(Child(root, 1)) = Some([i \in 1..Len(value(Child(root, 1))) |-> -Scale])

\* the pass on exp(-x) for a vector x has completed
C6_Witness ==
    /\ Done
    /\ Kind(root) = "Exp" /\ Kind(Child(root, 1)) = "Negate"
    /\ Kind(Child(Child(root, 1), 1)) = "Variable"
    /\ Len(value(root)) > 1
    /\ get_grad(Child(Child(root, 1), 1)) # Absent

ForwardOk ==
    \A n \in NodeIds :
        LET x == value(Child(n, 1))
            y == value(Child(n, 2))
        IN  /\ Kind(n) = "AddN" =>
                 value(n) = [i \in 1..Len(x) |-> x[i] + y[i]]
            /\ Kind(n) = "Subtract" =>
                 value(n) = [i \in 1..Len(x) |-> x[i] - y[i]]
            /\ Kind(n) = "Multiply" =>
                 value(n) = [i \in 1..Len(x) |-> FMul(x[i], y[i])]
            /\ Kind(n) \in {"AddN", "Subtract", "Multiply"} =>
                 Len(value(n)) = Len(x) /\ Len(value(n)) = Len(y)

NodesKept == \A n \in NodeIds : n \in 1..Len(nodes') /\ nodes'[n] = nodes[n]

C8_ChildOrder ==
    /\ (call.node # 0 /\ Kind(call.node) = "Subtract") =>
          /\ call.results[1] = call.grad
          /\ call.results[2] = [i \in 1..Len(call.grad) |-> -call.grad[i]]
    /\ (call.node # 0 /\ Kind(call.node) = "Multiply") =>
          LET x == value(Child(call.node, 1))
              y == value(Child(call.node, 2))
              g == call.grad
          IN  /\ call.results[1] = [i \in 1..Len(g) |-> FMul(y[i], g[i])]
              /\ call.results[2] = [i \in 1..Len(g) |-> FMul(x[i], g[i])]
    /\ (Done /\ Kind(root) = "Subtract" /\ Child(root, 1) # Child(root, 2)
            /\ Kind(Child(root, 1)) = "Variable" /\ Kind(Child(root, 2)) = "Variable") =>
          /\ get_grad(Child(root, 1)) = Some([i \in 1..Len(value(root)) |-> Scale])
          /\ get_grad(Child(root, 2)) = Some([i \in 1..Len(value(root)) |-> -Scale])
    /\ (Done /\ Kind(root) = "Multiply"
            /\ Kind(Child(root, 1)) = "Variable" /\ Kind(Child(root, 2)) = "Constant") =>
          get_grad(Child(root, 1)) = Some(value(Child(root, 2)))

\* the pass on x * c has completed, for a constant c that differs from x
C8_Witness ==
    /\ Done
    /\ Kind(root) = "Multiply"
    /\ Kind(Child(root, 1)) = "Variable" /\ Kind(Child(root, 2)) = "Constant"
    /\ value(Child(root, 1)) # value(Child(root, 2))
    /\ get_grad(Child(root, 1)) # Absent

\* the accumulators of a pass over r run in a context of its own
RECURSIVE RunPass(_, _, _)
RunPass(g, ord, i) == IF i > Len(ord) THEN g ELSE RunPass(StepGrad(g, ord[i]), ord, i + 1)

IndependentPass(r) == RunPass(Seed(Empty, r), ProcessingOrder(r), 1)

Consumers(n) == {m \in Range(order) : n \in Range(get_children(m))}

Position(seq, n) == CHOOSE i \in 1..Len(seq) : seq[i] = n

\* C11: in a backward pass every node stands in the processing order after
\* all of its consumers reachable from the root, and no identifier stands in
\* it twice; a node whose compute_grad has been called was called once, and
\* only after each of its consumers was called and had handed over its
\* contribution for every slot the node fills.
C11_ConsumersFirst ==
    pc \in {"running", "done"} =>
        /\ Range(order) = Reachable(root)
        /\ \A i, j \in 1..Len(order) : i # j => order[i] # order[j]
        /\ \A i, j \in 1..Len(processed) : i # j => processed[i] # processed[j]
        /\ \A n \in Range(order) : \A m \in Consumers(n) :
              m \in Range(order) /\ Position(order, m) < Position(order, n)
        /\ \A n \in Range(processed) : \A m \in Consumers(n) :
              /\ m \in Range(processed)
              /\ Position(processed, m) < Position(processed, n)
              /\ \A k \in 1..Len(get_children(m)) :
                    get_children(m)[k] = n =>
                        \E j \in ContribsTo(n) :
                            /\ contribs[j].from = m /\ contribs[j].slot = k
                            /\ \A l \in 1..Len(contribs) : contribs[l].from = n => j < l

\* a composite node with two consumers, one of them a consumer of the other,
\* has been processed
C11_Witness ==
    /\ Done
    /\ \E n \in Range(processed) : \E m1, m2 \in Consumers(n) :
          /\ m1 # m2
          /\ m1 \in Consumers(m2)

\* what the call leaves in the buffers, whatever they held
Overwritten ==
    call.node # 0 =>
        LET n == call.node
            g == call.grad
            x == value(Child(n, 1))
        IN  /\ call.results = compute_grad(n, g, Scratch(n))
            /\ Len(call.results) = Len(call.scratch)
            /\ \A i \in 1..Len(call.results) : Len(call.results[i]) = Len(call.scratch[i])
            /\ Kind(n) = "SumVec" => call.results = <<[i \in 1..Len(x) |-> g[1]]>>
            /\ Kind(n) = "BulkSum" => \A i \in 1..Len(call.results) : call.results[i] = g
            /\ Kind(n) = "Divide" =>
                  LET y == value(Child(n, 2))
                  IN  /\ call.results[1] = [i \in 1..Len(g) |-> FMul(FDiv(Scale, y[i]), g[i])]
                      /\ call.results[2] =
                            [i \in 1..Len(g) |-> FMul(FDiv(-x[i], FMul(y[i], y[i])), g[i])]

\* a call changes the record of the call alone
CallFrame ==
    call' # call =>
        UNCHANGED <<nodes, gradients, pc, root, order, idx, contribs, processed, repeat, budget>>

====
